---- MODULE Spec2Model ----
(***************************************************************************)
(* Genetic search for a low-depth state-preparation circuit.               *)
(*   src/GA.py    the generation loop: evaluation, adaptive threshold,     *)
(*                elite index, crossover, mutation, regeneration           *)
(*   src/gene.py  Gene_Circuit: the decoder from a gene to a circuit       *)
(*                                                                         *)
(* Fidelities are integers in units of 0.005 (200 is fidelity 1.0), so     *)
(* that a fidelity can sit exactly on a threshold 0.99 - 0.01*ii or        *)
(* strictly between two of them.  Python's 0-based positions are 1-based   *)
(* here; a slice keeps its 0-based half-open bounds in SliceAssign.        *)
(***************************************************************************)
EXTENDS Integers, Sequences, FiniteSets, TLC

\* the generation loop of src/GA.py
VARIABLES cfg, i, pc, random_gene, result, ii, gene, index, parent_gene,
          child_gene, j, parent, crossover_point, saved

\* one Gene_Circuit and its evaluation by get_optimized_fidelity
VARIABLES G, dpc, pos, qubit, circuit, theta_index, num_parameters,
          minimize_calls, ret

gaVars == <<cfg, i, pc, random_gene, result, ii, gene, index, parent_gene,
            child_gene, j, parent, crossover_point, saved>>

decVars == <<G, dpc, pos, qubit, circuit, theta_index, num_parameters,
             minimize_calls, ret>>

vars == <<gaVars, decVars>>

(***************************************************************************)
(* Program constants.                                                      *)
(***************************************************************************)
\* np.random.randint(0,11,...): gene cells are drawn from 0..10
NumCodes == 11
\* gene_gates = ['empty','rz','cx','h','x','sx']
NumGates == 6
\* result[:,0] > 0.99 - 0.01*ii, in units of 0.005
StartThreshold == 198
ThresholdStep == 2
\* while (True and ii<100)
MaxAttempts == 100
\* the run parameters of src/GA.py
num_genes == 20
length_gene == 10
MinQuorum == 6
EliteCount == 10
RegenDivisor == 10
iter == 30
num_qubit == 3

(***************************************************************************)
(* Bounds of the scaled run that the generation loop is explored with.     *)
(***************************************************************************)
PopSize == 4
GeneLen == 3
Quorum == 2
Elite == 2
RegenDiv == 4
MaxIter == 2
NumSeeds == 2
\* SpecCross: the most elites a sampled evaluation yields, and the passes of
\* the child loop that are explored
MaxElites == 3
CrossPasses == 1
\* SpecDecode: the positions of the decoded gene
DecodeLen == 2

\* The run parameters, and with them the samples of the random draws:
\* max_high and mid_levels sample the fidelities (FidVectors), mut_pos and
\* mut_codes the mutation draws (MutDraws).

\* the run parameters as written in src/GA.py, for the selection step
SelectCfg ==
  [num_genes |-> num_genes, length_gene |-> length_gene, quorum |-> MinQuorum,
   elite_count |-> EliteCount, regen_div |-> RegenDivisor, iter |-> iter,
   max_high |-> num_genes, mid_levels |-> {190, 191, 198},
   mut_pos |-> {}, mut_codes |-> {}]

\* the run parameters as written in src/GA.py, for the child loop
CrossCfg ==
  [num_genes |-> num_genes, length_gene |-> length_gene, quorum |-> MinQuorum,
   elite_count |-> EliteCount, regen_div |-> RegenDivisor, iter |-> iter,
   max_high |-> MaxElites, mid_levels |-> {},
   mut_pos |-> {1, length_gene}, mut_codes |-> {0, NumCodes - 1}]

\* the same loop on a small population, for whole generations
SmallCfg ==
  [num_genes |-> PopSize, length_gene |-> GeneLen, quorum |-> Quorum,
   elite_count |-> Elite, regen_div |-> RegenDiv, iter |-> MaxIter,
   max_high |-> PopSize, mid_levels |-> {},
   mut_pos |-> {GeneLen}, mut_codes |-> {NumCodes - 1}]

(***************************************************************************)
(* Helpers.                                                                *)
(***************************************************************************)
Min(S) == CHOOSE x \in S : \A y \in S : x <= y

Max(S) == CHOOSE x \in S : \A y \in S : x >= y

Range(s) == {s[k] : k \in 1..Len(s)}

\* a stream of draws of np.random.randint(0,11) under seed s
RandInt(s, n) == (s * s * (n + 1) + 3 * n + s) % NumCodes

\* np.random.randint(0,11,rows*len).reshape(rows,len)
RandomGenes(s, rows, len) ==
  [g \in 1..rows |-> [k \in 1..len |-> RandInt(s, (g - 1) * len + (k - 1))]]

\* populations of 0..10 cells in which gene g has D non-empty cells, D a
\* bijection of g modulo 11: at most two genes share a depth
PatternDepth(m, g) == ((6 * m - 5) * g + 3 * (m - 1)) % NumCodes

PatternGenes(m, rows, len) ==
  [g \in 1..rows |->
     [k \in 1..len |-> IF k <= PatternDepth(m, g) THEN 1 + ((g + k) % (NumCodes - 1)) ELSE 0]]

\* np.zeros((num_genes,length_gene)).astype(int)
Zeros(rows, len) == [g \in 1..rows |-> [k \in 1..len |-> 0]]

\* depth of the circuit of a gene: every non-empty cell is one operation on
\* the gene's wire
DepthOf(g) == Cardinality({k \in 1..Len(g) : g[k] # 0})

(***************************************************************************)
(* Evaluation results: the fidelity the optimizer reaches is free.  The    *)
(* sampled vectors put a genes just above 0.99 (199), b genes on a middle  *)
(* level (a level of cfg.mid_levels) and the rest at fidelity 0, rotated   *)
(* by sh positions.                                                        *)
(***************************************************************************)
FidVector(n, a, b, lv, sh) ==
  [g \in 1..n |->
     LET r == ((g - 1 + sh) % n) + 1
     IN  IF r <= a THEN 199 ELSE IF r <= a + b THEN lv ELSE 0]

FidVectors(c) ==
  {FidVector(c.num_genes, a, 0, 0, 0) : a \in 0..c.max_high}
    \cup {FidVector(c.num_genes, a, b, lv, sh) :
            a \in 0..3, b \in 1..5, lv \in c.mid_levels, sh \in {0, 7}}

(***************************************************************************)
(* Adaptive threshold, src/GA.py lines 148-154.                            *)
(***************************************************************************)
Threshold(n) == StartThreshold - ThresholdStep * n

\* (variant: the comparison admits a fidelity equal to the threshold)
PassingOrEqual(res, t) == {g \in 1..Len(res) : res[g].fidelity >= t}

\* gene = result[:,0] > 0.99 - 0.01*ii
Passing(res, t) == {g \in 1..Len(res) : res[g].fidelity > t}

\* the loop from its head with ii = n and the mask m of the last pass
RECURSIVE ThresholdLoop(_, _, _, _)
ThresholdLoop(res, q, n, m) ==
  IF n < MaxAttempts
  THEN LET mask == Passing(res, Threshold(n))
       IN  IF Cardinality(mask) >= q
           THEN [ii |-> n + 1, gene |-> mask]
           ELSE ThresholdLoop(res, q, n + 1, mask)
  ELSE [ii |-> n, gene |-> m]

(***************************************************************************)
(* Elite index, src/GA.py lines 156-163.                                   *)
(***************************************************************************)
\* the orders of a set of indices
Perms(S) ==
  {s \in [1..Cardinality(S) -> S] :
     \A a, b \in 1..Cardinality(S) : a # b => s[a] # s[b]}

\* np.argsort(result[:,1]) with the default (not stable) sort: any order of
\* the indices that is ascending in depth, built depth by depth over the
\* depths ds that occur
RECURSIVE SortedOrders(_, _)
SortedOrders(res, ds) ==
  IF ds = {} THEN {<<>>}
  ELSE LET d == Min(ds)
       IN  {p \o o : p \in Perms({g \in 1..Len(res) : res[g].depth = d}),
                     o \in SortedOrders(res, ds \ {d})}

argsort(res) == SortedOrders(res, {res[g].depth : g \in 1..Len(res)})

\* (variant: the loop appends every index of the order, passing or not)
RECURSIVE EliteIndexUnmasked(_, _, _, _)
EliteIndexUnmasked(order, mask, cap, acc) ==
  IF order = <<>> THEN acc
  ELSE IF Len(acc) + 1 = cap THEN Append(acc, Head(order))
       ELSE EliteIndexUnmasked(Tail(order), mask, cap, Append(acc, Head(order)))

\* for j in order: if gene[j]: index.append(j); if len(index)==10: break
RECURSIVE EliteIndex(_, _, _, _)
EliteIndex(order, mask, cap, acc) ==
  IF order = <<>> THEN acc
  ELSE IF Head(order) \in mask
       THEN IF Len(acc) + 1 = cap THEN Append(acc, Head(order))
            ELSE EliteIndex(Tail(order), mask, cap, Append(acc, Head(order)))
       ELSE EliteIndex(Tail(order), mask, cap, acc)

(***************************************************************************)
(* Breeding, src/GA.py lines 171-192.                                      *)
(***************************************************************************)
\* (variant: the upper end of the range is included)
CrossoverPointsInclusive(len) == 1..(len - 1)

\* np.random.randint(1,length_gene-1)
CrossoverPoints(len) == 1..(len - 2)

\* (variant: the cut is one position early)
CrossChildEarly(A, B, p) == [k \in 1..Len(A) |-> IF k < p THEN A[k] ELSE B[k]]

\* np.concatenate((A[:p], B[p:]))
CrossChild(A, B, p) == [k \in 1..Len(A) |-> IF k <= p THEN A[k] ELSE B[k]]

\* the draws of one mutation pass: draw[k] = -1 when rand() >= mutation_rate,
\* the new code otherwise; sampled: no position, or one position of
\* c.mut_pos, redrawn as a code of c.mut_codes
MutDraws(c) ==
  {[k \in 1..c.length_gene |-> -1]}
    \cup {[k \in 1..c.length_gene |-> IF k = m THEN v ELSE -1] :
            m \in c.mut_pos, v \in c.mut_codes}

\* for k: if rand()<mutation_rate: child_gene[j][k] = randint(0,11)
MutateGene(g, draw) == [k \in 1..Len(g) |-> IF draw[k] >= 0 THEN draw[k] ELSE g[k]]

\* (variant: the slice is written one position to the right)
SliceAssignShifted(arr, start, stop, vals) ==
  [k \in 1..Len(arr) |->
     IF start + 1 < k /\ k <= stop + 1 /\ k <= Len(arr) THEN vals[k - start - 1] ELSE arr[k]]

\* arr[start:stop] = vals, 0 <= start <= stop <= len(arr)
SliceAssign(arr, start, stop, vals) ==
  [k \in 1..Len(arr) |-> IF start < k /\ k <= stop THEN vals[k - start] ELSE arr[k]]

\* int(num_genes/10)
NumRandom(c) == c.num_genes \div c.regen_div

(***************************************************************************)
(* The generation loop of src/GA.py.                                       *)
(***************************************************************************)
NoSaved == [gene |-> <<>>, result |-> <<>>]

InitLoop(c, pop) ==
  /\ cfg = c
  /\ i = 0
  /\ pc = "evaluate"
  /\ random_gene = pop
  /\ result = <<>>
  /\ ii = 0
  /\ gene = {}
  /\ index = <<>>
  /\ parent_gene = <<>>
  /\ child_gene = <<>>
  /\ j = 0
  /\ parent = <<>>
  /\ crossover_point = 0
  /\ saved = NoSaved

\* no Gene_Circuit is under construction
IdleDecoder ==
  /\ G = <<>>
  /\ dpc = "idle"
  /\ pos = 0
  /\ qubit = 0
  /\ circuit = <<>>
  /\ theta_index = 0
  /\ num_parameters = 0
  /\ minimize_calls = 0
  /\ ret = <<>>

Init ==
  /\ \E s \in 1..NumSeeds : InitLoop(SmallCfg, RandomGenes(s, PopSize, GeneLen))
  /\ IdleDecoder

InitSelect ==
  /\ \E m \in 1..NumSeeds : InitLoop(SelectCfg, PatternGenes(m, num_genes, length_gene))
  /\ IdleDecoder

InitCross ==
  /\ \E m \in 1..NumSeeds : InitLoop(CrossCfg, PatternGenes(m, num_genes, length_gene))
  /\ IdleDecoder

\* pool.map(get_fidelity_depth, random_gene), saved and loaded again.  The
\* evaluation is taken by what it returns per gene, (fidelity, depth, theta):
\* the fidelity is free, the depth is that of the gene, theta is not read
\* by the loop.
Evaluate ==
  /\ pc = "evaluate"
  /\ i < cfg.iter
  /\ \E f \in FidVectors(cfg) :
       result' = [g \in 1..Len(random_gene) |->
                    [fidelity |-> f[g], depth |-> DepthOf(random_gene[g])]]
  /\ pc' = "select"
  /\ UNCHANGED <<cfg, i, random_gene, ii, gene, index, parent_gene,
                 child_gene, j, parent, crossover_point, saved>>
  /\ UNCHANGED decVars

\* the threshold search, the elite index, the saved elites, and the empty
\* child population
Select ==
  /\ pc = "select"
  /\ \E ts \in {ThresholdLoop(result, cfg.quorum, 0, {})} :
         /\ ii' = ts.ii
         /\ gene' = ts.gene
         /\ \E idx \in {EliteIndex(order, ts.gene, cfg.elite_count, <<>>) :
                           order \in argsort(result)} :
              index' = idx
  /\ saved' = [gene |-> [e \in 1..Len(index') |-> random_gene[index'[e]]],
               result |-> [e \in 1..Len(index') |-> result[index'[e]]]]
  /\ parent_gene' = [e \in 1..Len(index') |-> random_gene[index'[e]]]
  /\ child_gene' = Zeros(cfg.num_genes, cfg.length_gene)
  /\ j' = 1
  /\ pc' = "pick"
  /\ UNCHANGED <<cfg, i, random_gene, result, parent, crossover_point>>
  /\ UNCHANGED decVars

\* parent = [randint(0,len(index)), randint(0,len(index))]; randint(0,0)
\* raises ValueError
PickParents ==
  /\ pc = "pick"
  /\ j <= cfg.num_genes
  /\ IF Len(index) = 0
     THEN pc' = "ValueError" /\ UNCHANGED parent
     ELSE /\ \E a \in 1..Len(index), b \in 1..Len(index) : parent' = <<a, b>>
          /\ pc' = "resample"
  /\ UNCHANGED <<cfg, i, random_gene, result, ii, gene, index, parent_gene,
                 child_gene, j, crossover_point, saved>>
  /\ UNCHANGED decVars

\* while parent[0]==parent[1]: parent[1] = randint(0,len(index))
Resample ==
  /\ pc = "resample"
  /\ parent[1] = parent[2]
  /\ \E b \in 1..Len(index) : parent' = <<parent[1], b>>
  /\ UNCHANGED <<cfg, i, pc, random_gene, result, ii, gene, index, parent_gene,
                 child_gene, j, crossover_point, saved>>
  /\ UNCHANGED decVars

\* the while loop is left, the crossover point is drawn as p, and the child
\* of the two parents is stored
CrossoverAt(p) ==
  /\ pc = "resample"
  /\ parent[1] # parent[2]
  /\ p \in CrossoverPoints(cfg.length_gene)
  /\ crossover_point' = p
  /\ child_gene' = [child_gene EXCEPT ![j] =
                      CrossChild(parent_gene[parent[1]], parent_gene[parent[2]], p)]
  /\ pc' = "mutate"
  /\ UNCHANGED <<cfg, i, random_gene, result, ii, gene, index, parent_gene,
                 j, parent, saved>>
  /\ UNCHANGED decVars

Crossover == \E p \in 0..cfg.length_gene : CrossoverAt(p)

\* the mutation pass over the child, and the next j
Mutate ==
  /\ pc = "mutate"
  /\ \E d \in MutDraws(cfg) :
       child_gene' = [child_gene EXCEPT ![j] = MutateGene(child_gene[j], d)]
  /\ j' = j + 1
  /\ pc' = "pick"
  /\ UNCHANGED <<cfg, i, random_gene, result, ii, gene, index, parent_gene,
                 parent, crossover_point, saved>>
  /\ UNCHANGED decVars

\* the fresh random genes, the elites, and the rebinding of random_gene
\* (random_gene = child_gene.astype(int) is a copy)
Regenerate ==
  /\ pc = "pick"
  /\ j = cfg.num_genes + 1
  /\ LET n == cfg.num_genes
         nr == NumRandom(cfg)
     IN  \E s \in 1..NumSeeds :
           random_gene' =
             SliceAssign(
               SliceAssign(child_gene, n - nr, n, RandomGenes(s, nr, cfg.length_gene)),
               n - nr - Len(index), n - nr, parent_gene)
  /\ i' = i + 1
  /\ pc' = "evaluate"
  \* the loop's locals are dead here: each is assigned again before it is read
  /\ child_gene' = <<>>
  /\ parent_gene' = <<>>
  /\ parent' = <<>>
  /\ crossover_point' = 0
  /\ j' = 0
  /\ UNCHANGED <<cfg, result, ii, gene, index, saved>>
  /\ UNCHANGED decVars

\* for i in range(iter) is exhausted
Finish ==
  /\ pc = "evaluate"
  /\ i = cfg.iter
  /\ pc' = "done"
  /\ UNCHANGED <<cfg, i, random_gene, result, ii, gene, index, parent_gene,
                 child_gene, j, parent, crossover_point, saved>>
  /\ UNCHANGED decVars

Next ==
  \/ Evaluate
  \/ Select
  \/ PickParents
  \/ Resample
  \/ Crossover
  \/ Mutate
  \/ Regenerate
  \/ Finish

Spec == Init /\ [][Next]_vars

\* the evaluation and the selection of the first generation, at full size
NextSelect ==
  \/ Evaluate
  \/ Select

SpecSelect == InitSelect /\ [][NextSelect]_vars

\* the first generation at full size, through the first passes of the
\* child loop
NextCross ==
  \/ Evaluate
  \/ Select
  \/ (j <= CrossPasses /\ PickParents)
  \/ Resample
  \/ Crossover
  \/ Mutate

SpecCross == InitCross /\ [][NextCross]_vars

(***************************************************************************)
(* Gene_Circuit of src/gene.py and get_optimized_fidelity of src/GA.py.    *)
(* A gene is G[i][p] = <<gate, control>> for qubit i in 0..num_qubit-1 and *)
(* position p in 1..length.                                                *)
(***************************************************************************)
\* gene_gates = ['empty','rz','cx','h','x','sx']
gene_gates == <<"empty", "rz", "cx", "h", "x", "sx">>

\* gene_gates[code]: a list index, negative codes count from the end
GateIndexOk(code) == -NumGates <= code /\ code < NumGates

GateOf(code) == gene_gates[(IF code < 0 THEN code + NumGates ELSE code) + 1]

\* if control >= self.num_qubit: control = control % self.num_qubit
ReduceControl(control, n) == IF control >= n THEN control % n ELSE control

\* the qubit an integer argument of circuit.cx names: a list index into the
\* circuit's qubits, negative values counting from the end
QubitOf(c, n) == IF c < 0 THEN c + n ELSE c

\* the cells the decoded genes are made of
CellSample == {<<0, 0>>, <<1, 5>>, <<2, -1>>, <<2, 4>>, <<4, 1>>, <<7, 0>>}

\* the fidelities an evaluation may return, in units of 0.005
FidSample == {0, 98, 199}

InitDecode ==
  /\ InitLoop(SmallCfg, RandomGenes(1, PopSize, GeneLen))
  /\ G \in [0..(num_qubit - 1) -> [1..DecodeLen -> CellSample]]
  /\ dpc = "decode"
  /\ pos = 1
  /\ qubit = 0
  /\ circuit = <<>>
  /\ theta_index = 0
  /\ num_parameters = 0
  /\ minimize_calls = 0
  /\ ret = <<>>

\* the next cell of "for G_nj in gene: for i,G_ij in enumerate(G_nj)"
Advance ==
  IF qubit + 1 < num_qubit
  THEN qubit' = qubit + 1 /\ pos' = pos
  ELSE qubit' = 0 /\ pos' = pos + 1

\* one pass of the inner loop of generate_circuit_from_gene
DecodeCell ==
  /\ dpc = "decode"
  /\ pos <= DecodeLen
  /\ LET G_ij == G[qubit][pos]
         control == ReduceControl(G_ij[2], num_qubit)
     IN  IF ~GateIndexOk(G_ij[1])
         THEN /\ dpc' = "IndexError"
              /\ UNCHANGED <<pos, qubit, circuit, theta_index>>
         ELSE LET gate == GateOf(G_ij[1])
              IN  IF gate = "empty"
                  THEN Advance /\ UNCHANGED <<dpc, circuit, theta_index>>
                  ELSE IF gate \in {"rx", "ry", "rz"}
                  THEN /\ circuit' = Append(circuit,
                                            [gate |-> gate, theta |-> theta_index, target |-> qubit])
                       /\ theta_index' = theta_index + 1
                       /\ Advance
                       /\ UNCHANGED dpc
                  ELSE IF gate = "cx"
                  THEN IF control = qubit
                       THEN Advance /\ UNCHANGED <<dpc, circuit, theta_index>>
                       ELSE IF QubitOf(control, num_qubit) \notin 0..(num_qubit - 1)
                               \/ QubitOf(control, num_qubit) = qubit
                            \* circuit.cx(control,i) with control passed as it is;
                            \* the circuit refuses a qubit it does not have and a
                            \* control on the target
                            THEN /\ dpc' = "CircuitError"
                                 /\ circuit' = Append(circuit,
                                      [gate |-> "cx", control |-> control, target |-> qubit])
                                 /\ UNCHANGED <<pos, qubit, theta_index>>
                            ELSE /\ circuit' = Append(circuit,
                                      [gate |-> "cx", control |-> control, target |-> qubit])
                                 /\ Advance
                                 /\ UNCHANGED <<dpc, theta_index>>
                  ELSE /\ circuit' = Append(circuit, [gate |-> gate, target |-> qubit])
                       /\ Advance
                       /\ UNCHANGED <<dpc, theta_index>>
  /\ UNCHANGED <<G, num_parameters, minimize_calls, ret>>
  /\ UNCHANGED gaVars

\* return circuit, and Gene_Circuit.__init__ reads the parameter count
Built ==
  /\ dpc = "decode"
  /\ pos = DecodeLen + 1
  /\ num_parameters' = theta_index
  /\ dpc' = "built"
  /\ UNCHANGED <<G, pos, qubit, circuit, theta_index, minimize_calls, ret>>
  /\ UNCHANGED gaVars

\* get_optimized_fidelity: theta = rand(num_parameters), the minimizer is
\* run on it, and the fidelity at its result is returned with the point
GetOptimizedFidelity ==
  /\ dpc = "built"
  /\ minimize_calls' = minimize_calls + 1
  /\ \E f \in FidSample :
       ret' = [fidelity |-> f, x0 |-> num_parameters, theta |-> num_parameters]
  /\ dpc' = "returned"
  /\ UNCHANGED <<G, pos, qubit, circuit, theta_index, num_parameters>>
  /\ UNCHANGED gaVars

NextDecode ==
  \/ DecodeCell
  \/ Built
  \/ GetOptimizedFidelity

SpecDecode == InitDecode /\ [][NextDecode]_vars

(***************************************************************************)
(* Properties.                                                             *)
(***************************************************************************)
\* the selection of the current generation is in the state
Selected == pc \in {"pick", "resample", "mutate", "ValueError"}

Fid(g) == result[g].fidelity

Depth(g) == result[g].depth

AtLeast(t) == {g \in 1..Len(result) : Fid(g) >= t}

Above(t) == {g \in 1..Len(result) : Fid(g) > t}

\* the child loop cannot go on: randint(0,0) has raised, or the only elite
\* collides with itself at every resampling
Crashed == pc = "ValueError"

Stuck == pc = "resample" /\ \A b \in 1..Len(index) : b = parent[1]

PopulationShape ==
  /\ Len(random_gene) = cfg.num_genes
  /\ \A g \in 1..Len(random_gene) : Len(random_gene[g]) = cfg.length_gene

\* C1: the generation step always delivers a next population of exactly
\* num_genes genes of length gene_length, whatever the number of candidates
\* and of elites (0 included): the population has that shape in every
\* state, and no generation step ends or hangs without delivering one.
C1_PopulationAlwaysDelivered == PopulationShape /\ ~Crashed /\ ~Stuck

\* C2: when fewer than elite_count genes pass the threshold search (one
\* elite and no elite included), the step neither raises an error nor loops
\* forever in the parent selection.
C2_FewElitesDoNotFail ==
  (Selected /\ Len(index) < cfg.elite_count) =>
    /\ pc # "ValueError"
    /\ pc = "resample" => \E b \in 1..Len(index) : b # parent[1]

\* the scenario of C3: 20 genes, quorum 6, 3 genes above 0.99, 8 above 0.95,
\* fewer than 6 above 0.98, 0.97 and 0.96
Scenario20 ==
  /\ Len(result) = 20
  /\ cfg.quorum = 6
  /\ Cardinality(Above(198)) = 3
  /\ Cardinality(Above(190)) = 8
  /\ \A t \in {196, 194, 192} : Cardinality(Above(t)) < 6

\* C3 as amended: the search stops at the first threshold t of 0.99, 0.98,
\* ... for which at least quorum genes have fidelity strictly above t, or
\* after 100 attempts; the candidates are exactly the genes with fidelity
\* strictly above the threshold the search stopped at (a fidelity equal to
\* the threshold does not pass); the scenario settles at 0.95 after 4
\* lowering steps.
C3_ThresholdStrict ==
  Selected =>
    /\ ii \in 1..MaxAttempts
    /\ gene = Above(StartThreshold - ThresholdStep * (ii - 1))
    /\ \A n \in 0..(ii - 2) :
         Cardinality(Above(StartThreshold - ThresholdStep * n)) < cfg.quorum
    /\ Cardinality(gene) >= cfg.quorum \/ ii = MaxAttempts
    /\ Scenario20 => ii = 5 /\ gene = Above(190)

\* C3 as stated: the same with "fidelity >= threshold", a fidelity equal to
\* the threshold passing.
C3_ThresholdInclusive ==
  Selected =>
    /\ ii \in 1..MaxAttempts
    /\ gene = AtLeast(StartThreshold - ThresholdStep * (ii - 1))
    /\ \A n \in 0..(ii - 2) :
         Cardinality(AtLeast(StartThreshold - ThresholdStep * n)) < cfg.quorum
    /\ Cardinality(gene) >= cfg.quorum \/ ii = MaxAttempts

\* the scenario has been searched, and some other search stopped with a
\* gene sitting exactly on a threshold that was tried
C3_Witness == Selected /\ Scenario20 /\ ii = 5

EliteSet == Range(index)

\* the elites are the min(elite_count, candidates) candidates of smallest
\* depth, in ascending depth order
ElitesByDepth ==
  /\ Len(index) = Min({cfg.elite_count, Cardinality(gene)})
  /\ \A e \in 1..Len(index) : index[e] \in gene
  /\ \A e, f \in 1..Len(index) : e < f => index[e] # index[f]
  /\ \A e, f \in 1..Len(index) : e < f => Depth(index[e]) <= Depth(index[f])
  /\ \A c \in gene \ EliteSet : \A e \in EliteSet : Depth(e) <= Depth(c)
  /\ index # <<>> =>
       Max({Depth(e) : e \in EliteSet}) <= Max({Depth(c) : c \in gene})

\* ties in depth go by the original index
TiesByIndex ==
  /\ \A e, f \in 1..Len(index) :
       (e < f /\ Depth(index[e]) = Depth(index[f])) => index[e] < index[f]
  /\ \A c \in gene \ EliteSet : \A e \in EliteSet : Depth(e) = Depth(c) => e < c

\* C4 as amended: the elites are the min(elite_count, candidates) passing
\* genes of smallest depth in ascending depth order, no unselected candidate
\* is shallower than an elite, every elite passes the threshold, and the
\* elites' maximum depth is at most the candidates'; the order among genes of
\* equal depth is whatever the sort yields.
C4_ElitesByDepth == Selected => ElitesByDepth

\* C4 as stated: moreover ties in depth are broken by the original index.
C4_ElitesStable == Selected => (ElitesByDepth /\ TiesByIndex)

\* more candidates than elite slots, and the last elite ties in depth with
\* a candidate that was left out
C4_Witness ==
  /\ Selected
  /\ Cardinality(gene) > cfg.elite_count
  /\ Len(index) = cfg.elite_count
  /\ \E c \in gene \ EliteSet : Depth(c) = Depth(index[Len(index)])

\* C5: every gene of the current population has gate codes inside the gate
\* alphabet 0..5.
C5_GateCodesInAlphabet ==
  \A g \in 1..Len(random_gene) : \A k \in 1..Len(random_gene[g]) :
    random_gene[g][k] \in 0..(NumGates - 1)

\* the population of generation i >= 1 as Regenerate left it, with the
\* elites of generation i-1 still in saved
NextGeneration == i >= 1 /\ pc \in {"evaluate", "select"}

ElitesKept ==
  LET n == cfg.num_genes
      nr == NumRandom(cfg)
      ne == Len(saved.gene)
  IN  /\ n - nr - ne >= 0
      /\ \A e \in 1..ne : random_gene[n - nr - ne + e] = saved.gene[e]
      /\ (pc = "select" /\ ne > 0) =>
           Min({Depth(g) : g \in 1..n}) <= Min({saved.result[e].depth : e \in 1..ne})

\* the step that rebinds random_gene: the elite slice holds the elites cell
\* for cell, the slice of fresh genes lies behind it, and the slots in front
\* hold the offspring of the child loop
RegenerateStep ==
  (pc = "pick" /\ pc' = "evaluate") =>
    LET n == cfg.num_genes
        nr == NumRandom(cfg)
        ne == Len(index)
    IN  /\ \A e \in 1..ne : random_gene'[n - nr - ne + e] = random_gene[index[e]]
        /\ \A k \in 1..(n - nr - ne) : random_gene'[k] = child_gene[k]
        /\ {n - nr - ne + e : e \in 1..ne} \cap ((n - nr + 1)..n) = {}
        /\ nr = Cardinality((n - nr + 1)..n)

CrossoverReady == pc = "resample" /\ parent[1] # parent[2]

\* C7 as amended: the crossover point is picked from [1, gene_length-2]:
\* each p with 1 <= p <= gene_length-2 can be chosen and no other value, so
\* every offspring takes at least one position from the first parent and at
\* least two from the second.
C7_CrossoverPointRange ==
  /\ CrossoverReady =>
       \A p \in 0..cfg.length_gene :
         (ENABLED CrossoverAt(p)) <=> (1 <= p /\ p <= cfg.length_gene - 2)
  /\ pc = "mutate" =>
       /\ 1 <= crossover_point
       /\ crossover_point <= cfg.length_gene - 2

\* C7 as stated: each p with 1 <= p <= gene_length-1 can be chosen and no
\* other value.
C7_CrossoverPointWholeRange ==
  /\ CrossoverReady =>
       \A p \in 0..cfg.length_gene :
         (ENABLED CrossoverAt(p)) <=> (1 <= p /\ p <= cfg.length_gene - 1)
  /\ pc = "mutate" =>
       /\ 1 <= crossover_point
       /\ crossover_point <= cfg.length_gene - 1

\* the largest point the code draws has been drawn for a gene of length 10
C7_Witness ==
  /\ pc = "mutate"
  /\ cfg.length_gene = 10
  /\ crossover_point = 8

\* C8: before mutation, a child is parent A's positions up to the crossover
\* point followed by parent B's positions after it, A and B two distinct
\* elites; at length 10 and point 4 the first 4 positions are A's and the
\* last 6 are B's; the parents are the elites as selected, unchanged.
C8_CrossoverChild ==
  pc = "mutate" =>
    LET A == parent_gene[parent[1]]
        B == parent_gene[parent[2]]
        child == child_gene[j]
    IN  /\ parent[1] # parent[2]
        /\ index[parent[1]] # index[parent[2]]
        /\ Len(child) = cfg.length_gene
        /\ \A k \in 1..crossover_point : child[k] = A[k]
        /\ \A k \in (crossover_point + 1)..cfg.length_gene : child[k] = B[k]
        /\ (cfg.length_gene = 10 /\ crossover_point = 4) =>
             /\ \A k \in 1..4 : child[k] = A[k]
             /\ \A k \in 5..10 : child[k] = B[k]
             /\ Cardinality(5..10) = 6
        /\ parent_gene = saved.gene
        /\ \A e \in 1..Len(index) : parent_gene[e] = random_gene[index[e]]

\* a child of length 10 cut at point 4 whose two sides tell the parents
\* apart
C8_Witness ==
  /\ pc = "mutate"
  /\ cfg.length_gene = 10
  /\ crossover_point = 4
  /\ parent_gene[parent[1]][4] # parent_gene[parent[2]][4]
  /\ parent_gene[parent[1]][5] # parent_gene[parent[2]][5]
  /\ child_gene[j][4] = parent_gene[parent[1]][4]
  /\ child_gene[j][5] = parent_gene[parent[2]][5]

\* C9: for every control_index (in range, at or above num_qubits, negative)
\* the control the decoder uses for a cx lies in [0, num_qubits), and a cx
\* whose control is its own target is dropped: every cx handed to the
\* circuit has a control in range and different from its target.
C9_ControlInRange ==
  \A o \in 1..Len(circuit) :
    circuit[o].gate = "cx" =>
      /\ circuit[o].control \in 0..(num_qubit - 1)
      /\ circuit[o].control # circuit[o].target
      /\ QubitOf(circuit[o].control, num_qubit) # circuit[o].target

\* C10: a gene that decodes to a circuit without parameters is evaluated
\* without the minimizer being invoked.
C10_NoMinimizeWithoutParameters ==
  (dpc = "returned" /\ num_parameters = 0) => minimize_calls = 0

====
